---- MODULE Spec2Model ----
(***************************************************************************)
(* cc-api-sandbox: createApp (src/src/app.ts).  An express app is built,   *)
(* an OpenAPIBackend is configured with three outcome handlers and custom  *)
(* ajv formats, the Heartbeat handler is registered, api.init() is awaited *)
(* and only then the dispatching middleware is installed and the app       *)
(* returned.  Each request runs api.handleRequest (match -> validate ->    *)
(* resolve) and then next() or next(e).                                    *)
(***************************************************************************)
EXTENDS Integers, Sequences, FiniteSets, TLC

VARIABLES createPc, handlers, inited, loadCount, dispatchInstalled,
          appReturned, hostnameLastIndex, reqs

vars == <<createPc, handlers, inited, loadCount, dispatchInstalled,
          appReturned, hostnameLastIndex, reqs>>

\* number of requests that can be in flight at the same time
MaxRequests == 2

Slots == 1..MaxRequests

(***************************************************************************)
(* The 'hostname' format: a RegExp object with the g and m flags           *)
(*   /^(?!:\/\/)([a-zA-Z\d-]{1,63})\.([a-zA-Z]{2,63})(\.[a-zA-Z]{2,63})?$/gm *)
(* Strings are sequences of one-character strings.  Positions i, e are     *)
(* 0-based offsets as in RegExp.lastIndex.                                 *)
(* The object is created when customizeAjv runs and lives as long as the   *)
(* validator it was added to: hostnameLastIndex is its lastIndex, kept     *)
(* from one validated request to the next.                                 *)
(***************************************************************************)
MaxLabelLen == 63
MinTldLen == 2
MaxTldLen == 63

AlphaChars == {"a", "b"}
LabelChars == AlphaChars \cup {"1", "-"}

\* ^ with the m flag: start of input or just after a line terminator
LineStart(s, i) == i = 0 \/ s[i] = "\n"

\* $ with the m flag: end of input or just before a line terminator
LineEnd(s, e) == e = Len(s) \/ s[e + 1] = "\n"

\* the characters at 1-based positions a..b are all in class cs, and there
\* are between lo and hi of them
Run(s, a, b, cs, lo, hi) ==
    /\ b - a + 1 >= lo
    /\ b - a + 1 <= hi
    /\ \A k \in a..b : s[k] \in cs

\* (?!:\/\/) at offset i
NotSchemeAhead(s, i) ==
    ~(i + 3 <= Len(s) /\ s[i + 1] = ":" /\ s[i + 2] = "/" /\ s[i + 3] = "/")

\* the pattern matches exactly the characters at offsets i..e-1
HostnameMatch(s, i, e) ==
    /\ LineStart(s, i)
    /\ NotSchemeAhead(s, i)
    /\ LineEnd(s, e)
    /\ \E p \in (i + 1)..e :
          /\ s[p] = "."
          /\ Run(s, i + 1, p - 1, LabelChars, 1, MaxLabelLen)
          /\ \/ Run(s, p + 1, e, AlphaChars, MinTldLen, MaxTldLen)
             \/ \E q \in (p + 1)..e :
                   /\ s[q] = "."
                   /\ Run(s, p + 1, q - 1, AlphaChars, MinTldLen, MaxTldLen)
                   /\ Run(s, q + 1, e, AlphaChars, MinTldLen, MaxTldLen)

Min(S) == CHOOSE x \in S : \A y \in S : x <= y

\* RegExp.prototype.test on a global RegExp: the search starts at lastIndex,
\* a match leaves lastIndex at its end, a failure resets lastIndex to 0
HostnameTest(s, lastIndex) ==
    LET starts == {i \in lastIndex..Len(s) :
                      \E e \in i..Len(s) : HostnameMatch(s, i, e)}
    IN  IF starts = {}
        THEN [ok |-> FALSE, lastIndex |-> 0]
        ELSE LET i0 == Min(starts)
                 e0 == Min({e \in i0..Len(s) : HostnameMatch(s, i0, e)})
             IN  [ok |-> TRUE, lastIndex |-> e0]

(***************************************************************************)
(* The loaded specification: an ordered collection of operations.  The     *)
(* document itself (SPEC_FILE) is an input of the program; this one holds  *)
(* an operation with a registered handler and a declared example, a        *)
(* literal and a templated path that overlap, an operation with a required *)
(* body field, an operation without operationId and one without example.   *)
(***************************************************************************)
Lit(name) == [param |-> FALSE, name |-> name]
Param(name) == [param |-> TRUE, name |-> name]

Example(status, payload) == [status |-> status, payload |-> payload]

Operations ==
    << [operationId |-> "Heartbeat", method |-> "GET",
        path |-> <<Lit("heartbeat")>>,
        required |-> <<>>, hostFormat |-> TRUE,
        examples |-> {Example(200, "heartbeatExample")}],
       [operationId |-> "CreateUser", method |-> "POST",
        path |-> <<Lit("users")>>,
        required |-> <<"email">>, hostFormat |-> FALSE,
        examples |-> {Example(201, "userCreated"), Example(200, "userExample")}],
       [operationId |-> "GetUser", method |-> "GET",
        path |-> <<Lit("users"), Param("id")>>,
        required |-> <<>>, hostFormat |-> FALSE,
        examples |-> {Example(200, "userExample")}],
       [operationId |-> "GetMe", method |-> "GET",
        path |-> <<Lit("users"), Lit("me")>>,
        required |-> <<>>, hostFormat |-> FALSE,
        examples |-> {Example(200, "meExample")}],
       [operationId |-> "", method |-> "GET",
        path |-> <<Lit("status")>>,
        required |-> <<>>, hostFormat |-> FALSE,
        examples |-> {Example(200, "statusExample")}],
       [operationId |-> "DeleteUser", method |-> "DELETE",
        path |-> <<Lit("users"), Param("id")>>,
        required |-> <<>>, hostFormat |-> FALSE,
        examples |-> {}] >>

OpIndexes == 1..Len(Operations)

\* values of the string field with format 'hostname'; <<>> is an absent field
HostValues ==
    { <<"a", ".", "a", "b">>,
      <<"a", ".", "a">> }

Req(method, path, email, host) ==
    [method |-> method, path |-> path, email |-> email, host |-> host]

NoReq == Req("", <<>>, "", <<>>)

Requests ==
    { Req("GET", <<"heartbeat">>, "", h) : h \in HostValues \cup {<<>>} }
    \cup
    { Req("GET", <<"unknown", "path">>, "", <<>>),
      Req("POST", <<"users">>, "u@x", <<>>),
      Req("POST", <<"users">>, "", <<>>),
      Req("GET", <<"users", "me">>, "", <<>>),
      Req("GET", <<"users", "42">>, "", <<>>),
      Req("GET", <<"status">>, "", <<>>),
      Req("DELETE", <<"users", "42">>, "", <<>>) }

(***************************************************************************)
(* Request matcher (api.handleRequest, first step)                         *)
(***************************************************************************)
\* a concrete segment matches a placeholder unconditionally and a literal
\* only on string equality
SegmentMatches(seg, concrete) == seg.param \/ seg.name = concrete

Candidates(method, path) ==
    { k \in OpIndexes :
        /\ Operations[k].method = method
        /\ Len(Operations[k].path) = Len(path)
        /\ \A j \in 1..Len(path) : SegmentMatches(Operations[k].path[j], path[j]) }

\* the precedence the wrong way round: the placeholder wins
BeatsReversed(d, c) ==
    \E j \in 1..Len(d) :
        /\ j <= Len(c)
        /\ d[j].param
        /\ ~c[j].param
        /\ \A m \in 1..(j - 1) : d[m].param = c[m].param

\* template d is more specific than template c: at the first position where
\* one is a literal and the other a placeholder, d has the literal
Beats(d, c) ==
    \E j \in 1..Len(d) :
        /\ j <= Len(c)
        /\ ~d[j].param
        /\ c[j].param
        /\ \A m \in 1..(j - 1) : d[m].param = c[m].param

Match(method, path) ==
    LET cands == Candidates(method, path)
        best == { c \in cands :
                    \A d \in cands : ~Beats(Operations[d].path, Operations[c].path) }
    IN  IF cands = {} THEN [kind |-> "Unmatched", ops |-> {}]
        ELSE IF Cardinality(best) = 1 THEN [kind |-> "Matched", ops |-> best]
        ELSE [kind |-> "AmbiguousMatch", ops |-> best]

(***************************************************************************)
(* Schema validator (api.handleRequest, second step)                       *)
(***************************************************************************)
Violation(location, field, keyword) ==
    [location |-> location, field |-> field, keyword |-> keyword]

Present(req, field) ==
    IF field = "email" THEN req.email # "" ELSE req.host # <<>>

RECURSIVE MissingRequired(_, _)
MissingRequired(required, req) ==
    IF required = <<>> THEN <<>>
    ELSE (IF Present(req, Head(required)) THEN <<>>
          ELSE <<Violation("body", Head(required), "required")>>)
         \o MissingRequired(Tail(required), req)

\* errors is the ordered violation list; lastIndex is the state the
\* 'hostname' RegExp is left in
ValidateRequest(op, req, lastIndex) ==
    LET missing == MissingRequired(op.required, req)
    IN  IF op.hostFormat /\ req.host # <<>>
        THEN LET t == HostnameTest(req.host, lastIndex)
             IN  [errors |-> missing \o
                             (IF t.ok THEN <<>>
                              ELSE <<Violation("body", "host", "format")>>),
                  lastIndex |-> t.lastIndex]
        ELSE [errors |-> missing, lastIndex |-> lastIndex]

(***************************************************************************)
(* Responses.  A JSON body is a record: {"err": "not found"} has the key   *)
(* "err" and a string, {"err": [...]} has the key "err" and a list, {} has *)
(* no key.                                                                 *)
(***************************************************************************)
Json(key, str, list) == [key |-> key, str |-> str, list |-> list]

Write(status, body) == [status |-> status, body |-> body]

OpById(operationId) ==
    Operations[CHOOSE k \in OpIndexes : Operations[k].operationId = operationId]

IsSuccess(status) == status >= 200 /\ status <= 299

\* the mock of an operation: the example of its lowest declared success
\* status, or the 501 sentinel when it declares none
MockFor(op) ==
    LET ok == { x \in op.examples : IsSuccess(x.status) }
    IN  IF ok = {}
        THEN [status |-> 501, mock |-> Json("", "Not Implemented", <<>>)]
        ELSE LET lowest == CHOOSE x \in ok : \A y \in ok : x.status <= y.status
             IN  [status |-> lowest.status, mock |-> Json("", lowest.payload, <<>>)]

\* c.api.mockResponseForOperation(operationId)
MockResponseForOperation(operationId) == MockFor(OpById(operationId))

\* the context the library hands to a handler
Context(op, errors) == [operation |-> op, errors |-> errors]

NoOp == [operationId |-> "", method |-> "", path |-> <<>>, required |-> <<>>,
         hostFormat |-> FALSE, examples |-> {}]

\* validationFail answering with an empty list instead of the violations
validationFailNoList(c) == <<Write(400, Json("err", "", <<>>))>>

\* validationFail sending its response twice
validationFailTwice(c) ==
    <<Write(400, Json("err", "", c.errors)), Write(400, Json("err", "", c.errors))>>

\* handlers.validationFail: res.status(400).json({ err: c.validation.errors })
validationFail(c) == <<Write(400, Json("err", "", c.errors))>>

\* notFound answering with the validation status
notFoundWrongStatus(c) == <<Write(400, Json("err", "not found", <<>>))>>

\* handlers.notFound: res.status(404).json({ err: "not found" })
notFound(c) == <<Write(404, Json("err", "not found", <<>>))>>

\* notImplemented mocking from the operation itself, operationId or not
notImplementedMockAlways(c) ==
    <<Write(MockFor(c.operation).status, MockFor(c.operation).mock)>>

\* handlers.notImplemented
notImplemented(c) ==
    LET r == IF c.operation.operationId # ""
             THEN MockResponseForOperation(c.operation.operationId)
             ELSE [status |-> 500, mock |-> Json("", "", <<>>)]
    IN  <<Write(r.status, r.mock)>>

\* the handler registered for Heartbeat (./handlers/heartbeat)
heartbeat(c) == <<Write(200, Json("", "heartbeatLive", <<>>))>>

\* createApp without the api.register call
RegisterNone == {}

\* api.register({ Heartbeat: heartbeat })
Register == {"Heartbeat"}

(***************************************************************************)
(* Dispatcher: api.handleRequest(req, req, res).  The result names the     *)
(* terminal state, the handlers that ran, what they wrote to res, whether  *)
(* the returned promise is fulfilled or rejected, and the state the shared *)
(* 'hostname' RegExp is left in.  fault: the custom handler throws.        *)
(***************************************************************************)
Outcome(state, opIndex, invoked, writes, settle, errors, lastIndex) ==
    [state |-> state, opIndex |-> opIndex, invoked |-> invoked,
     writes |-> writes, settle |-> settle, errors |-> errors,
     lastIndex |-> lastIndex]

HandleRequest(req, registry, lastIndex, fault) ==
    LET m == Match(req.method, req.path)
    IN  IF m.kind = "Unmatched"
        THEN Outcome("NotFound", 0, <<"notFound">>,
                     notFound(Context(NoOp, <<>>)), "fulfilled", <<>>, lastIndex)
        ELSE IF m.kind = "AmbiguousMatch"
        THEN Outcome("AmbiguousSpec", 0, <<>>, <<>>, "rejected", <<>>, lastIndex)
        ELSE
        LET k == CHOOSE x \in m.ops : TRUE
            op == Operations[k]
            v == ValidateRequest(op, req, lastIndex)
            c == Context(op, v.errors)
        IN  IF v.errors # <<>>
            THEN Outcome("ValidationFailed", k, <<"validationFail">>,
                         validationFail(c), "fulfilled", v.errors, v.lastIndex)
            ELSE IF op.operationId # "" /\ op.operationId \in registry
            THEN IF fault
                 THEN Outcome("Fault", k, <<op.operationId>>, <<>>,
                              "rejected", v.errors, v.lastIndex)
                 ELSE Outcome("Resolved", k, <<op.operationId>>, heartbeat(c),
                              "fulfilled", v.errors, v.lastIndex)
            ELSE Outcome("Resolved", k, <<"notImplemented">>, notImplemented(c),
                         "fulfilled", v.errors, v.lastIndex)

\* a middleware that calls next() whatever the promise settled to
NextCallsBoth(settle) ==
    IF settle = "fulfilled" THEN <<"next">> ELSE <<"next(e)", "next">>

\* the dispatching middleware: .then(() => next()).catch((e) => next(e))
NextCalls(settle) ==
    IF settle = "fulfilled" THEN <<"next">> ELSE <<"next(e)">>

\* createApp with api.init() not awaited: the middleware is installed and
\* the app returned while the specification is still loading
CreateAppNoAwait == [installed |-> TRUE, returned |-> TRUE]

\* what createApp has done when it suspends at `await api.init()`
CreateAppSync == [installed |-> FALSE, returned |-> FALSE]

(***************************************************************************)
(* State                                                                   *)
(***************************************************************************)
Idle ==
    [pc |-> "idle", req |-> NoReq, state |-> "", opIndex |-> 0, invoked |-> <<>>,
     writes |-> <<>>, settle |-> "", errors |-> <<>>, nexts |-> <<>>,
     dispatches |-> 0, initedAtDispatch |-> FALSE]

Init ==
    /\ createPc = "start"
    /\ handlers = {}
    /\ inited = FALSE
    /\ loadCount = 0
    /\ dispatchInstalled = FALSE
    /\ appReturned = FALSE
    /\ hostnameLastIndex = 0
    /\ reqs = [r \in Slots |-> Idle]

\* createApp up to `await api.init()`: express(), new OpenAPIBackend with
\* the three outcome handlers, api.register, the call of api.init()
CreateApp ==
    /\ createPc = "start"
    /\ createPc' = "awaitInit"
    /\ handlers' = Register
    /\ loadCount' = loadCount + 1
    /\ dispatchInstalled' = CreateAppSync.installed
    /\ appReturned' = CreateAppSync.returned
    /\ UNCHANGED <<inited, hostnameLastIndex, reqs>>

\* api.init() resolves and createApp resumes after the await:
\* app.use(dispatch); return app
InitResolved ==
    /\ createPc = "awaitInit"
    /\ createPc' = "returned"
    /\ inited' = TRUE
    /\ dispatchInstalled' = TRUE
    /\ appReturned' = TRUE
    /\ UNCHANGED <<handlers, loadCount, hostnameLastIndex, reqs>>

\* api.init() rejects (the specification cannot be loaded): the await
\* throws, createApp rejects and the rest of its body never runs
InitRejected ==
    /\ createPc = "awaitInit"
    /\ createPc' = "rejected"
    /\ UNCHANGED <<handlers, inited, loadCount, dispatchInstalled,
                   appReturned, hostnameLastIndex, reqs>>

(***************************************************************************)
(* Requests                                                                *)
(***************************************************************************)
\* the transport hands a request to the app the caller got from createApp;
\* express.json, the logger, express.static and the debug logger pass it on
Receive(r, q) ==
    /\ appReturned
    /\ reqs[r].pc = "idle"
    /\ reqs' = [reqs EXCEPT ![r] = [Idle EXCEPT !.pc = "arrived", !.req = q]]
    /\ UNCHANGED <<createPc, handlers, inited, loadCount, dispatchInstalled,
                   appReturned, hostnameLastIndex>>

\* the dispatching middleware calls api.handleRequest; matching, validation
\* and the outcome handler run before the promise settles
Dispatch(r, fault) ==
    /\ dispatchInstalled
    /\ reqs[r].pc = "arrived"
    /\ LET o == HandleRequest(reqs[r].req, handlers, hostnameLastIndex, fault)
       IN  /\ reqs' = [reqs EXCEPT ![r] =
                         [@ EXCEPT !.pc = "settled",
                                   !.state = o.state,
                                   !.opIndex = o.opIndex,
                                   !.invoked = @ \o o.invoked,
                                   !.writes = @ \o o.writes,
                                   !.settle = o.settle,
                                   !.errors = o.errors,
                                   !.dispatches = @ + 1,
                                   !.initedAtDispatch = inited]]
           /\ hostnameLastIndex' = o.lastIndex
    /\ UNCHANGED <<createPc, handlers, inited, loadCount, dispatchInstalled,
                   appReturned>>

\* the promise's reaction runs: next() or next(e)
ThenCatch(r) ==
    /\ reqs[r].pc = "settled"
    /\ reqs' = [reqs EXCEPT ![r] =
                  [@ EXCEPT !.pc = "final",
                            !.nexts = @ \o NextCalls(reqs[r].settle)]]
    /\ UNCHANGED <<createPc, handlers, inited, loadCount, dispatchInstalled,
                   appReturned, hostnameLastIndex>>

\* no middleware follows the dispatcher, so next reaches express's final
\* handler: it answers 404 (next()) or 500 (next(e)) unless the response
\* has already been written
RECURSIVE Finalize(_, _)
Finalize(calls, writes) ==
    IF calls = <<>> THEN writes
    ELSE Finalize(Tail(calls),
                  IF writes # <<>> THEN writes
                  ELSE IF Head(calls) = "next"
                       THEN <<Write(404, Json("", "Cannot", <<>>))>>
                       ELSE <<Write(500, Json("", "Internal Server Error", <<>>))>>)

FinalHandler(r) ==
    /\ reqs[r].pc = "final"
    /\ reqs' = [reqs EXCEPT ![r] =
                  [@ EXCEPT !.pc = "done",
                            !.writes = Finalize(reqs[r].nexts, @)]]
    /\ UNCHANGED <<createPc, handlers, inited, loadCount, dispatchInstalled,
                   appReturned, hostnameLastIndex>>

\* the response has been sent; the core retains nothing of the request
Release(r) ==
    /\ reqs[r].pc = "done"
    /\ reqs' = [reqs EXCEPT ![r] = Idle]
    /\ UNCHANGED <<createPc, handlers, inited, loadCount, dispatchInstalled,
                   appReturned, hostnameLastIndex>>

Next ==
    \/ CreateApp
    \/ InitResolved
    \/ InitRejected
    \/ \E r \in Slots, q \in Requests : Receive(r, q)
    \/ \E r \in Slots, fault \in BOOLEAN : Dispatch(r, fault)
    \/ \E r \in Slots : ThenCatch(r)
    \/ \E r \in Slots : FinalHandler(r)
    \/ \E r \in Slots : Release(r)

Spec == Init /\ [][Next]_vars

TypeOK ==
    /\ createPc \in {"start", "awaitInit", "returned", "rejected"}
    /\ hostnameLastIndex \in Nat
    /\ \A r \in Slots : reqs[r].pc \in {"idle", "arrived", "settled", "final", "done"}

(***************************************************************************)
(* Properties                                                              *)
(***************************************************************************)
Dispatched(r) == reqs[r].dispatches > 0

Finished(r) == reqs[r].pc = "done"

MatchedOp(r) == Operations[reqs[r].opIndex]

NotFoundBody == Json("err", "not found", <<>>)

\* C1: a dispatched request whose (method, path) matches no operation ends
\* in NotFound, its response is 404 {"err": "not found"}, and only the
\* notFound handler ran: no custom handler, no mock synthesis
C1_UnmatchedIsNotFound ==
    \A r \in Slots :
        (Dispatched(r) /\ Candidates(reqs[r].req.method, reqs[r].req.path) = {})
        => /\ reqs[r].state = "NotFound"
           /\ reqs[r].invoked = <<"notFound">>
           /\ reqs[r].writes = <<Write(404, NotFoundBody)>>

C1_Witness ==
    \E r \in Slots :
        /\ Finished(r)
        /\ reqs[r].req.path = <<"unknown", "path">>
        /\ reqs[r].writes = <<Write(404, NotFoundBody)>>

\* C2: a dispatched request that matches an operation and whose validation
\* yields a non-empty violation list ends in ValidationFailed with the
\* response 400 {"err": <the whole list>}; neither a custom handler nor the
\* mock fallback runs, also when a handler is registered for the operation
C2_InvalidIsValidationFailed ==
    \A r \in Slots :
        (Dispatched(r) /\ reqs[r].opIndex # 0 /\ reqs[r].errors # <<>>)
        => /\ reqs[r].state = "ValidationFailed"
           /\ reqs[r].invoked = <<"validationFail">>
           /\ reqs[r].writes = <<Write(400, Json("err", "", reqs[r].errors))>>

C2_Witness ==
    \E r \in Slots :
        /\ Finished(r)
        /\ reqs[r].opIndex # 0
        /\ MatchedOp(r).operationId \in handlers
        /\ reqs[r].errors # <<>>
        /\ reqs[r].state = "ValidationFailed"

\* C3: after api.register, a valid request that matches the Heartbeat
\* operation runs the registered handler and no other; when the handler
\* returns, its output is the response, not the declared example
C3_HandlerOverridesMock ==
    \A r \in Slots :
        (/\ Dispatched(r)
         /\ reqs[r].opIndex # 0
         /\ MatchedOp(r).operationId = "Heartbeat"
         /\ reqs[r].errors = <<>>)
        => /\ reqs[r].invoked = <<"Heartbeat">>
           /\ reqs[r].settle = "fulfilled"
                => reqs[r].writes = heartbeat(Context(MatchedOp(r), <<>>))
           /\ \A i \in 1..Len(reqs[r].writes) :
                 reqs[r].writes[i].body # MockFor(MatchedOp(r)).mock

C3_Witness ==
    \E r \in Slots :
        /\ Finished(r)
        /\ reqs[r].opIndex # 0
        /\ MatchedOp(r).operationId = "Heartbeat"
        /\ MatchedOp(r).examples # {}
        /\ reqs[r].state = "Resolved"
        /\ reqs[r].writes = heartbeat(Context(MatchedOp(r), <<>>))

\* C4: a valid request that matches an operation with no registered
\* handler is answered with the operation's mock: the example of the lowest
\* declared success status, or the 501 sentinel when there is no example
C4_UnhandledIsMocked ==
    \A r \in Slots :
        (/\ Dispatched(r)
         /\ reqs[r].opIndex # 0
         /\ reqs[r].errors = <<>>
         /\ MatchedOp(r).operationId \notin handlers)
        => reqs[r].writes =
              <<Write(MockFor(MatchedOp(r)).status, MockFor(MatchedOp(r)).mock)>>

\* C5: a request is dispatched once, reaches one terminal outcome that no
\* later step changes, and gets one response: once written, the response
\* is not written again, neither by next() nor by anything after it
C5_OneOutcomeOneResponse ==
    [][\A r \in Slots :
          reqs'[r].pc # "idle"
          => /\ reqs'[r].dispatches <= 1
             /\ Len(reqs'[r].writes) <= 1
             /\ reqs'[r].pc = "done" => Len(reqs'[r].writes) = 1
             /\ reqs'[r].dispatches = 1
                  => /\ reqs'[r].state \in
                           {"NotFound", "ValidationFailed", "Resolved", "Fault"}
                     /\ Len(reqs'[r].invoked) = 1
             /\ reqs[r].dispatches = 1
                  => /\ reqs'[r].dispatches = 1
                     /\ reqs'[r].state = reqs[r].state
                     /\ reqs'[r].invoked = reqs[r].invoked
                     /\ reqs[r].writes # <<>> => reqs'[r].writes = reqs[r].writes]_vars

C5_Witness ==
    \E r \in Slots :
        /\ Finished(r)
        /\ reqs[r].nexts = <<"next">>
        /\ Len(reqs[r].writes) = 1
        /\ reqs[r].dispatches = 1

\* C6: no request is dispatched before the specification is loaded: the
\* middleware is installed and the app returned only after api.init() has
\* resolved; when loading fails there is no app and nothing is served;
\* api.init() is called once
C6_LoadedBeforeServing ==
    /\ \A r \in Slots : Dispatched(r) => reqs[r].initedAtDispatch
    /\ (dispatchInstalled \/ appReturned) => inited
    /\ createPc = "rejected"
         => /\ ~appReturned
            /\ ~dispatchInstalled
            /\ \A r \in Slots : reqs[r].pc = "idle"
    /\ loadCount = (IF createPc = "start" THEN 0 ELSE 1)

C6_Witness ==
    /\ createPc = "returned"
    /\ loadCount = 1
    /\ \E r \in Slots : Dispatched(r) /\ reqs[r].initedAtDispatch

\* C7: when handleRequest rejects, the middleware calls next(e) once and
\* never next(), and the core writes no 400, 404 or mock response: the only
\* response is the one the transport makes of the fault
C7_FaultPropagates ==
    \A r \in Slots :
        (reqs[r].settle = "rejected" /\ reqs[r].pc \in {"final", "done"})
        => /\ reqs[r].nexts = <<"next(e)">>
           /\ \A i \in 1..Len(reqs[r].writes) :
                 reqs[r].writes[i] = Write(500, Json("", "Internal Server Error", <<>>))

C7_Witness ==
    \E r \in Slots :
        /\ Finished(r)
        /\ reqs[r].settle = "rejected"
        /\ reqs[r].nexts = <<"next(e)">>

AllLiteral(path) == \A j \in 1..Len(path) : ~path[j].param

\* C8: when a literal and a templated path overlap, a request for the
\* literal path is dispatched to the literal operation, any other value to
\* the templated one, and the match is never ambiguous
C8_LiteralWins ==
    \A r \in Slots :
        Dispatched(r)
        => LET cands == Candidates(reqs[r].req.method, reqs[r].req.path)
           IN  /\ reqs[r].state # "AmbiguousSpec"
               /\ \A k \in cands :
                     AllLiteral(Operations[k].path) => reqs[r].opIndex = k
               /\ (cands # {} /\ \A k \in cands : ~AllLiteral(Operations[k].path))
                     => /\ reqs[r].opIndex \in cands
                        /\ Cardinality(cands) = 1

C8_Witness ==
    \E r1, r2 \in Slots :
        /\ Finished(r1)
        /\ Finished(r2)
        /\ reqs[r1].req = Req("GET", <<"users", "me">>, "", <<>>)
        /\ Cardinality(Candidates("GET", <<"users", "me">>)) = 2
        /\ MatchedOp(r1).operationId = "GetMe"
        /\ reqs[r2].req = Req("GET", <<"users", "42">>, "", <<>>)
        /\ MatchedOp(r2).operationId = "GetUser"

\* C9: two identical requests get the same validation result, whatever was
\* handled before them: the same violation list, and ValidationFailed for
\* both or for neither
C9_SameRequestSameOutcome ==
    \A r1, r2 \in Slots :
        (Dispatched(r1) /\ Dispatched(r2) /\ reqs[r1].req = reqs[r2].req)
        => /\ reqs[r1].errors = reqs[r2].errors
           /\ (reqs[r1].state = "ValidationFailed")
                 <=> (reqs[r2].state = "ValidationFailed")

\* C10: notImplemented answers 500 with an empty object for an operation
\* without operationId, whatever examples it declares, and otherwise with
\* the status and mock of mockResponseForOperation
C10_NotImplementedResponse ==
    \A r \in Slots :
        (Dispatched(r) /\ reqs[r].invoked = <<"notImplemented">>)
        => IF MatchedOp(r).operationId = ""
           THEN reqs[r].writes = <<Write(500, Json("", "", <<>>))>>
           ELSE reqs[r].writes =
                   <<Write(MockResponseForOperation(MatchedOp(r).operationId).status,
                           MockResponseForOperation(MatchedOp(r).operationId).mock)>>

C10_Witness ==
    \E r \in Slots :
        /\ Finished(r)
        /\ reqs[r].invoked = <<"notImplemented">>
        /\ MatchedOp(r).operationId = ""
        /\ MatchedOp(r).examples # {}
        /\ reqs[r].writes = <<Write(500, Json("", "", <<>>))>>

====
